---- MODULE Spec2Model ----
(***************************************************************************)
(* The authoritative session engine of the survival game server            *)
(* (src/unnamed/part_000, the compiled server): the game-lifecycle state   *)
(* machine, the movement tick, the macro tick (clock, depletion, death),   *)
(* the spawn task, the socket commands and the leaderboard.                *)
(*                                                                         *)
(* Spec is the server from its load on.  SpecPlay (two players late in a   *)
(* session), SpecNight (one player at nightfall), SpecLate (the end of the *)
(* second session and the restart) and SpecLeaderboard (the gameOver       *)
(* command alone) start from states the server reaches later, so that      *)
(* longer scenarios stay within reach.  SpecRequests is Spec with the      *)
(* gameOver command and the /start-game route among the requests,          *)
(* FairSpec is Spec with the macro tick firing again and again, and        *)
(* SpecWalk is one player walking in the preparation phase with the        *)
(* movement tick firing again and again.  The variable submissions is the  *)
(* history of the gameOver submissions, kept to state what the leaderboard *)
(* holds.                                                                  *)
(*                                                                         *)
(* Coordinates are integers in units of 1/UNIT pixel, so that the halved   *)
(* speed (2.5 px) is exact.  Random draws (Math.random) are drawn from     *)
(* small sets.  Every handler runs to completion (single-threaded event    *)
(* loop), so every handler is one action.                                  *)
(***************************************************************************)
EXTENDS Integers, Sequences, FiniteSets, TLC

(* ------------------------------------------------------------------ *)
(* Program constants                                                    *)
(* ------------------------------------------------------------------ *)
GAME_DURATION == 120
PREPARATION_TIME == 3
DAY_NIGHT_CYCLE == 30
MAP_WIDTH == 800
MAP_HEIGHT == 600
RESOURCE_COUNT == 20
RESOURCE_COLLECTION_RADIUS == 20
MAX_RESOURCE_VALUE == 100
MAX_RESOURCE_FILL == 10
MIN_RESOURCES == 15
MAX_RESOURCES == 30
BASE_SPEED == 5
SNAP_DISTANCE == 1
SAFE_ZONE_RADIUS == 50
DEPLETION_RATE == 5
NIGHT_DEPLETION_RATE == 15

(* ------------------------------------------------------------------ *)
(* Bounds of the model                                                  *)
(* ------------------------------------------------------------------ *)
\* client commands (register, movePlayer, collectResource, disconnect) per run
MaxCmds == 2
\* sessions started per run (one spawn task is created per session start)
MaxSpawnTasks == 2
\* resources created by the spawn task per run
MaxSpawned == 1
\* samples of the random generator used at a session start
NumSeeds == 2
\* samples of the random generator used by the spawn task
NumSpawnSeeds == 1

\* resolution of coordinates: UNIT model units per pixel
UNIT == 2

Ids == {"c1", "c2"}
Types == {"food", "water", "oxygen"}
TypeSeq == <<"food", "water", "oxygen">>
Seeds == 1..NumSeeds
SpawnSeeds == 1..NumSpawnSeeds

Max(a, b) == IF a >= b THEN a ELSE b
Min(a, b) == IF a <= b THEN a ELSE b
Abs(a) == IF a >= 0 THEN a ELSE -a

Px(x, y) == [x |-> x * UNIT, y |-> y * UNIT]

\* positions Math.random() may give a registering player
RegPositions == {Px(5, 300), Px(20, 300)}
\* positions a client may send with movePlayer
MoveTargets == {Px(5, 300), Px(20, 300), [x |-> 111, y |-> 600]}
\* positions Math.random() may give the safe zone
ZoneSeq == <<Px(5, 300), Px(700, 100)>>

VARIABLES
    players,           \* gameState.players: id -> player
    playerOrder,       \* insertion order of gameState.players
    playerMovements,   \* playerMovements: id -> [targetPosition, isMoving]
    movementOrder,     \* insertion order of playerMovements
    resources,         \* gameState.resources
    safeZones,         \* gameState.safeZones
    isDayTime,         \* gameState.isDayTime
    timeRemaining,     \* gameState.timeRemaining
    gameStatus,        \* gameState.gameStatus
    preparationTimer,  \* TRUE while the preparation interval is armed
    restartTimeout,    \* TRUE while setTimeout(startGameCycle, 5000) is pending
    spawnTasks,        \* number of spawn intervals created so far
    resourceSerial,    \* number of resources spawned so far (fresh ids)
    crashed,           \* TRUE once a handler threw (the process has exited)
    emitted,           \* events emitted by the last handler
    cmds,              \* client commands received so far
    leaderboard,       \* leaderboard: sequence of [playerName, score]
    submissions        \* history: the gameOver submissions received so far

vars == <<players, playerOrder, playerMovements, movementOrder, resources,
          safeZones, isDayTime, timeRemaining, gameStatus, preparationTimer,
          restartTimeout, spawnTasks, resourceSerial, crashed, emitted, cmds,
          leaderboard, submissions>>

\* the server state as one value, so that handlers compose as functions
State ==
    [players |-> players, playerOrder |-> playerOrder,
     playerMovements |-> playerMovements, movementOrder |-> movementOrder,
     resources |-> resources, safeZones |-> safeZones,
     isDayTime |-> isDayTime, timeRemaining |-> timeRemaining,
     gameStatus |-> gameStatus, preparationTimer |-> preparationTimer,
     restartTimeout |-> restartTimeout, spawnTasks |-> spawnTasks,
     resourceSerial |-> resourceSerial, crashed |-> crashed,
     emitted |-> {}]

Becomes(g) ==
    /\ players' = g.players
    /\ playerOrder' = g.playerOrder
    /\ playerMovements' = g.playerMovements
    /\ movementOrder' = g.movementOrder
    /\ resources' = g.resources
    /\ safeZones' = g.safeZones
    /\ isDayTime' = g.isDayTime
    /\ timeRemaining' = g.timeRemaining
    /\ gameStatus' = g.gameStatus
    /\ preparationTimer' = g.preparationTimer
    /\ restartTimeout' = g.restartTimeout
    /\ spawnTasks' = g.spawnTasks
    /\ resourceSerial' = g.resourceSerial
    /\ crashed' = g.crashed
    /\ emitted' = g.emitted

FullResources == [ty \in Types |-> MAX_RESOURCE_VALUE]
NoResources == [ty \in Types |-> 0]

Emit(g, ev) == [g EXCEPT !.emitted = @ \cup {ev}]

(* ------------------------------------------------------------------ *)
(* Generators                                                           *)
(* ------------------------------------------------------------------ *)
ResourceType(seed, i) == TypeSeq[((i + seed + 2) % 3) + 1]
\* mutant: Math.floor(Math.random() * (MAX_RESOURCE_FILL + 1)), from 0 up
ResourceAmount_fromZero(seed, i) == (7 * seed + 3 * i - 1) % (MAX_RESOURCE_FILL + 1)

ResourceAmount(seed, i) == ((7 * seed + 3 * i - 1) % MAX_RESOURCE_FILL) + 1
\* the draw ClusterSeed puts the first ClusterSize resources next to each other
ClusterSeed == 3
ClusterSize == 8
ResourcePosition(seed, i) ==
    IF i = 0 \/ (seed = ClusterSeed /\ i < ClusterSize)
    THEN Px(12, 300) ELSE Px(600 + 5 * i, 500)

\* mutant: the first two resources carry the same id
generateResources_repeatedId(seed) ==
    [k \in 1..RESOURCE_COUNT |->
        [id |-> Max(k - 2, 0),
         type |-> ResourceType(seed, k - 1),
         position |-> ResourcePosition(seed, k - 1),
         amount |-> ResourceAmount(seed, k - 1)]]

generateResources(seed) ==
    [k \in 1..RESOURCE_COUNT |->
        [id |-> k - 1,
         type |-> ResourceType(seed, k - 1),
         position |-> ResourcePosition(seed, k - 1),
         amount |-> ResourceAmount(seed, k - 1)]]

generateSafeZones(seed) ==
    << [id |-> "safe-zone-1",
        position |-> ZoneSeq[(seed % Len(ZoneSeq)) + 1],
        radius |-> SAFE_ZONE_RADIUS] >>

(* ------------------------------------------------------------------ *)
(* Geometry                                                             *)
(* ------------------------------------------------------------------ *)
Dist2(p, q) == (p.x - q.x) * (p.x - q.x) + (p.y - q.y) * (p.y - q.y)

\* Math.sqrt(dx*dx + dy*dy), exact on the inputs of the model
Length(dx, dy) ==
    IF dy = 0 THEN Abs(dx)
    ELSE IF dx = 0 THEN Abs(dy)
    ELSE CHOOSE r \in 0..(Abs(dx) + Abs(dy)) : r * r = dx * dx + dy * dy

checkPlayerInSafeZone(g, player) ==
    \E k \in 1..Len(g.safeZones) :
        Dist2(player.position, g.safeZones[k].position)
            <= (g.safeZones[k].radius * UNIT) * (g.safeZones[k].radius * UNIT)

\* mutant: the death predicate of the other server variant (any level at zero)
isPlayerDead_anyZero(player) ==
    \/ player.resources["food"] = 0
    \/ player.resources["water"] = 0
    \/ player.resources["oxygen"] = 0

isPlayerDead(player) ==
    /\ player.resources["food"] = 0
    /\ player.resources["water"] = 0
    /\ player.resources["oxygen"] = 0

(* ------------------------------------------------------------------ *)
(* Death                                                                *)
(* ------------------------------------------------------------------ *)
\* the playerDied event carries, for observation, the levels the player had
\* when the death transition was called
handlePlayerDeath(g, playerId) ==
    IF playerId \in DOMAIN g.players
    THEN [g EXCEPT
            !.players[playerId] =
                [@ EXCEPT !.isSpectator = TRUE, !.resources = NoResources],
            !.emitted = @ \cup
                {[type |-> "playerDied", playerId |-> playerId,
                  resources |-> g.players[playerId].resources,
                  wasSpectator |-> g.players[playerId].isSpectator]}]
    ELSE g

(* ------------------------------------------------------------------ *)
(* Session life cycle                                                   *)
(* ------------------------------------------------------------------ *)
\* mutant: the countdown is not set back to the preparation time
startGameCycle_noCountdownReset(g) ==
    [g EXCEPT
        !.gameStatus = "waiting",
        !.resources = << >>,
        !.players = [id \in DOMAIN g.players |->
            IF ~g.players[id].isSpectator
            THEN [g.players[id] EXCEPT !.score = 0, !.resources = FullResources]
            ELSE g.players[id]],
        !.preparationTimer = TRUE,
        !.emitted = @ \cup {[type |-> "preparationPhase"]}]

\* mutant: the resources of the session before are not cleared
startGameCycle_keepsResources(g) ==
    [g EXCEPT
        !.gameStatus = "waiting",
        !.timeRemaining = PREPARATION_TIME,
        !.players = [id \in DOMAIN g.players |->
            IF ~g.players[id].isSpectator
            THEN [g.players[id] EXCEPT !.score = 0, !.resources = FullResources]
            ELSE g.players[id]],
        !.preparationTimer = TRUE,
        !.emitted = @ \cup {[type |-> "preparationPhase"]}]

startGameCycle(g) ==
    [g EXCEPT
        !.gameStatus = "waiting",
        !.timeRemaining = PREPARATION_TIME,
        !.resources = << >>,
        !.players = [id \in DOMAIN g.players |->
            IF ~g.players[id].isSpectator
            THEN [g.players[id] EXCEPT !.score = 0, !.resources = FullResources]
            ELSE g.players[id]],
        !.preparationTimer = TRUE,
        !.emitted = @ \cup {[type |-> "preparationPhase"]}]

activePlayers(g) == {id \in DOMAIN g.players : ~g.players[id].isSpectator}

\* mutant: the game starts whether or not an active player is present
startGame_unchecked(g, seed) ==
    [g EXCEPT
        !.gameStatus = "running",
        !.timeRemaining = GAME_DURATION,
        !.isDayTime = TRUE,
        !.resources = generateResources(seed),
        !.safeZones = generateSafeZones(seed),
        !.spawnTasks = @ + 1,
        !.emitted = @ \cup {[type |-> "gameStarted"]}]

startGame(g, seed) ==
    IF activePlayers(g) = {}
    THEN startGameCycle(g)
    ELSE [g EXCEPT
            !.gameStatus = "running",
            !.timeRemaining = GAME_DURATION,
            !.isDayTime = TRUE,
            !.resources = generateResources(seed),
            !.safeZones = generateSafeZones(seed),
            !.spawnTasks = @ + 1,
            !.emitted = @ \cup {[type |-> "gameStarted"]}]

\* the callback of the preparation interval
preparationTick(g, seed) ==
    LET g1 == Emit([g EXCEPT !.timeRemaining = @ - 1],
                   [type |-> "preparationUpdate",
                    timeRemaining |-> g.timeRemaining - 1])
    IN IF g1.timeRemaining <= 0
       THEN startGame([g1 EXCEPT !.preparationTimer = FALSE], seed)
       ELSE g1

\* mutant: the last player of the list wins whatever the scores
reduceWinner_last(g, order, k, prev) == order[Len(order)]

\* players.reduce((prev, current) => prev.score > current.score ? prev : current)
RECURSIVE reduceWinner(_, _, _, _)
reduceWinner(g, order, k, prev) ==
    IF k > Len(order) THEN prev
    ELSE reduceWinner(g, order, k + 1,
            IF g.players[prev].score > g.players[order[k]].score
            THEN prev ELSE order[k])

\* mutant: the end of the session leaves the players as they are
endGame_noReset(g) ==
    LET g1 == [g EXCEPT !.gameStatus = "finished"]
    IN IF Len(g.playerOrder) = 0
       THEN [g1 EXCEPT !.crashed = TRUE]
       ELSE [g1 EXCEPT
                !.emitted = @ \cup
                    {[type |-> "gameFinished",
                      winner |-> reduceWinner(g, g.playerOrder, 2, g.playerOrder[1]),
                      finalScores |-> [id \in DOMAIN g.players |-> g.players[id].score]]},
                !.restartTimeout = TRUE]

endGame(g) ==
    LET g1 == [g EXCEPT !.gameStatus = "finished"]
    IN IF Len(g.playerOrder) = 0
       THEN \* reduce of an empty array with no initial value throws
            [g1 EXCEPT !.crashed = TRUE]
       ELSE [g1 EXCEPT
                !.emitted = @ \cup
                    {[type |-> "gameFinished",
                      winner |-> reduceWinner(g, g.playerOrder, 2, g.playerOrder[1]),
                      finalScores |-> [id \in DOMAIN g.players |-> g.players[id].score]]},
                !.players = [id \in DOMAIN g.players |->
                    [g.players[id] EXCEPT !.score = 0, !.resources = FullResources]],
                !.restartTimeout = TRUE]

(* ------------------------------------------------------------------ *)
(* Macro tick                                                           *)
(* ------------------------------------------------------------------ *)
\* mutant: at night the penalty is applied to sheltered players as well
depletePlayer_nightAlways(g, id) ==
    LET player == g.players[id]
        depletionRate == IF ~g.isDayTime THEN NIGHT_DEPLETION_RATE
                         ELSE DEPLETION_RATE
        g1 == [g EXCEPT !.players[id].resources =
                [ty \in Types |-> Max(0, player.resources[ty] - depletionRate)]]
    IN IF isPlayerDead(g1.players[id])
       THEN handlePlayerDeath(g1, id)
       ELSE g1

\* the body of gameState.players.forEach in gameLoop, for one player
depletePlayer(g, id) ==
    LET player == g.players[id]
    IN IF g.isDayTime \/ ~player.isInSafeZone
       THEN LET depletionRate ==
                    IF ~g.isDayTime /\ ~player.isInSafeZone
                    THEN NIGHT_DEPLETION_RATE ELSE DEPLETION_RATE
                g1 == [g EXCEPT !.players[id].resources =
                        [ty \in Types |-> Max(0, player.resources[ty] - depletionRate)]]
            IN IF isPlayerDead(g1.players[id])
               THEN handlePlayerDeath(g1, id)
               ELSE g1
       ELSE g

RECURSIVE depleteAll(_, _, _)
depleteAll(g, order, k) ==
    IF k > Len(order) THEN g
    ELSE depleteAll(depletePlayer(g, order[k]), order, k + 1)

\* mutant: the day/night test reads the countdown before the decrement
gameLoopBody_toggleBeforeDecrement(g) ==
    LET t == g.timeRemaining - 1
        g1 == [g EXCEPT !.timeRemaining = t]
        g2 == IF g.timeRemaining % DAY_NIGHT_CYCLE = 0
              THEN Emit([g1 EXCEPT !.isDayTime = ~g.isDayTime],
                        [type |-> "dayNightChange", isDayTime |-> ~g.isDayTime])
              ELSE g1
        g3 == depleteAll(g2, g2.playerOrder, 1)
    IN IF g3.timeRemaining <= 0 THEN endGame(g3) ELSE g3

\* mutant: the session ends one macro tick early
gameLoopBody_endsEarly(g) ==
    LET t == g.timeRemaining - 1
        g1 == [g EXCEPT !.timeRemaining = t]
        g2 == IF t % DAY_NIGHT_CYCLE = 0
              THEN Emit([g1 EXCEPT !.isDayTime = ~g.isDayTime],
                        [type |-> "dayNightChange", isDayTime |-> ~g.isDayTime])
              ELSE g1
        g3 == depleteAll(g2, g2.playerOrder, 1)
    IN IF g3.timeRemaining <= 1 THEN endGame(g3) ELSE g3

\* the body of gameLoop once the status check has passed
gameLoopBody(g) ==
    LET t == g.timeRemaining - 1
        g1 == [g EXCEPT !.timeRemaining = t]
        g2 == IF t % DAY_NIGHT_CYCLE = 0
              THEN Emit([g1 EXCEPT !.isDayTime = ~g.isDayTime],
                        [type |-> "dayNightChange", isDayTime |-> ~g.isDayTime])
              ELSE g1
        g3 == depleteAll(g2, g2.playerOrder, 1)
    IN IF g3.timeRemaining <= 0 THEN endGame(g3) ELSE g3

\* mutant: the macro tick runs whatever the status
gameLoop_anyStatus(g) == gameLoopBody(g)

gameLoop(g) ==
    IF g.gameStatus = "running" THEN gameLoopBody(g) ELSE g

(* ------------------------------------------------------------------ *)
(* Collection and the movement tick                                     *)
(* ------------------------------------------------------------------ *)
InCollectionRange(position, resource) ==
    Dist2(position, resource.position)
        < (RESOURCE_COLLECTION_RADIUS * UNIT) * (RESOURCE_COLLECTION_RADIUS * UNIT)

\* index of the resource checkResourceCollection returns, 0 for null
FirstInRange(position, res) ==
    IF \E k \in 1..Len(res) : InCollectionRange(position, res[k])
    THEN CHOOSE k \in 1..Len(res) :
            /\ InCollectionRange(position, res[k])
            /\ \A j \in 1..(k - 1) : ~InCollectionRange(position, res[j])
    ELSE 0

\* checkResourceCollection(player, gameState.resources): the score is
\* credited inside the check
checkResourceCollection(g, id) ==
    LET k == FirstInRange(g.players[id].position, g.resources)
    IN IF k = 0 THEN g
       ELSE [g EXCEPT !.players[id].score = @ + g.resources[k].amount]

\* mutant: the collected resource stays in the list
RemoveResource_keep(res, rid) == res

RemoveResource(res, rid) == SelectSeq(res, LAMBDA r : r.id # rid)

\* the collectResource command
collectResource(g, id) ==
    IF id \notin DOMAIN g.players \/ g.players[id].isSpectator
    THEN g
    ELSE LET k == FirstInRange(g.players[id].position, g.resources)
             g1 == checkResourceCollection(g, id)
         IN IF k = 0 THEN g1
            ELSE LET collected == g.resources[k]
                     currentValue == g1.players[id].resources[collected.type]
                     maxAddition ==
                        Min(Min(collected.amount, MAX_RESOURCE_FILL),
                            Max(0, MAX_RESOURCE_VALUE - currentValue))
                 IN IF maxAddition > 0
                    THEN [g1 EXCEPT
                            !.players[id].resources[collected.type] =
                                currentValue + maxAddition,
                            !.resources = RemoveResource(@, collected.id),
                            !.emitted = @ \cup
                                {[type |-> "resourceCollected",
                                  resourceId |-> collected.id,
                                  playerId |-> id,
                                  newResourceValue |-> currentValue + maxAddition,
                                  playerScore |-> g1.players[id].score]}]
                    ELSE g1

\* mutant: the level is not capped
addCollected_uncapped(value, amount) == value + amount

\* mutant: a collection fills by MAX_RESOURCE_FILL whatever the amount
addCollected_fill(value, amount) == Min(100, value + MAX_RESOURCE_FILL)

\* Math.min(100, level + amount) of the movement tick
addCollected(value, amount) == Min(100, value + amount)

\* mutant: an exhausted level does not slow the player down
stepSpeed_noFatigue(player) == BASE_SPEED * UNIT

\* the per-tick speed in model units
stepSpeed(player) ==
    IF \/ player.resources["food"] = 0
       \/ player.resources["water"] = 0
       \/ player.resources["oxygen"] = 0
    THEN (BASE_SPEED * UNIT) \div 2
    ELSE BASE_SPEED * UNIT

\* the body of playerMovements.forEach in updatePlayerPositions
movePlayerStep(g, id) ==
    IF /\ id \in DOMAIN g.players
       /\ g.playerMovements[id].isMoving
       /\ ~g.players[id].isSpectator
    THEN LET player == g.players[id]
             target == g.playerMovements[id].targetPosition
             dx == target.x - player.position.x
             dy == target.y - player.position.y
         IN IF dx * dx + dy * dy < (SNAP_DISTANCE * UNIT) * (SNAP_DISTANCE * UNIT)
            THEN [g EXCEPT !.players[id].position = target,
                           !.playerMovements[id].isMoving = FALSE]
            ELSE LET distance == Length(dx, dy)
                     speed == stepSpeed(player)
                     moved == [x |-> player.position.x + (dx * speed) \div distance,
                               y |-> player.position.y + (dy * speed) \div distance]
                     g1 == [g EXCEPT !.players[id].position = moved]
                     k == FirstInRange(moved, g1.resources)
                     g2 == checkResourceCollection(g1, id)
                     g3 == IF k = 0 THEN g2
                           ELSE LET collected == g1.resources[k]
                                    newValue == addCollected(
                                        g2.players[id].resources[collected.type],
                                        collected.amount)
                                IN [g2 EXCEPT
                                      !.resources = RemoveResource(@, collected.id),
                                      !.players[id].resources[collected.type] = newValue,
                                      !.emitted = @ \cup
                                        {[type |-> "resourceCollected",
                                          resourceId |-> collected.id,
                                          playerId |-> id,
                                          newResourceValue |-> newValue,
                                          playerScore |-> g2.players[id].score]}]
                     g4 == [g3 EXCEPT !.players[id].isInSafeZone =
                                checkPlayerInSafeZone(g3, g3.players[id])]
                 IN IF isPlayerDead(g4.players[id])
                    THEN handlePlayerDeath(g4, id)
                    ELSE g4
    ELSE g

RECURSIVE moveAll(_, _, _)
moveAll(g, order, k) ==
    IF k > Len(order) THEN g
    ELSE moveAll(movePlayerStep(g, order[k]), order, k + 1)

updatePlayerPositions(g) == moveAll(g, g.movementOrder, 1)

(* ------------------------------------------------------------------ *)
(* Spawn task                                                           *)
(* ------------------------------------------------------------------ *)
\* spawned resources lie in the bottom right spawn zone
spawnResource(seed, serial) ==
    [id |-> RESOURCE_COUNT + serial,
     type |-> ResourceType(seed, serial),
     position |-> Px(MAP_WIDTH - 100, MAP_HEIGHT - 100),
     amount |-> ResourceAmount(seed, serial)]

RECURSIVE spawnMany(_, _, _)
spawnMany(g, seed, n) ==
    IF n = 0 THEN g
    ELSE spawnMany([g EXCEPT
                      !.resources = Append(@, spawnResource(seed, g.resourceSerial)),
                      !.resourceSerial = @ + 1],
                   seed, n - 1)

\* io.emit('gameStateUpdate', gameState) at the end of a spawn interval's
\* firing; the event carries, for observation, the number of resources the
\* firing pushed
spawnUpdate(g, before) ==
    Emit(g, [type |-> "gameStateUpdate",
             spawned |-> g.resourceSerial - before.resourceSerial])

\* mutant: the spawn interval does not look at the maximum
spawnTick_noMax(g, seed, coin) ==
    IF g.gameStatus # "running" THEN g
    ELSE LET currentResourceCount == Len(g.resources)
         IN IF currentResourceCount < MIN_RESOURCES
            THEN spawnUpdate(
                    spawnMany(g, seed, MIN_RESOURCES - currentResourceCount), g)
            ELSE IF coin THEN spawnUpdate(spawnMany(g, seed, 1), g)
                 ELSE spawnUpdate(g, g)

\* mutant: below the minimum the spawn interval pushes one resource only
spawnTick_oneBelowMin(g, seed, coin) ==
    IF g.gameStatus # "running" THEN g
    ELSE LET currentResourceCount == Len(g.resources)
         IN IF currentResourceCount >= MAX_RESOURCES THEN g
            ELSE IF currentResourceCount < MIN_RESOURCES
                 THEN spawnUpdate(spawnMany(g, seed, 1), g)
                 ELSE IF coin THEN spawnUpdate(spawnMany(g, seed, 1), g)
                      ELSE spawnUpdate(g, g)

\* mutant: the spawn interval does not look at the status
spawnTick_anyStatus(g, seed, coin) ==
    LET currentResourceCount == Len(g.resources)
    IN IF currentResourceCount >= MAX_RESOURCES THEN g
       ELSE IF currentResourceCount < MIN_RESOURCES
            THEN spawnUpdate(
                    spawnMany(g, seed, MIN_RESOURCES - currentResourceCount), g)
            ELSE IF coin THEN spawnUpdate(spawnMany(g, seed, 1), g)
                 ELSE spawnUpdate(g, g)

\* one firing of one spawn interval; coin is Math.random() < 0.5
spawnTick(g, seed, coin) ==
    IF g.gameStatus # "running" THEN g
    ELSE LET currentResourceCount == Len(g.resources)
         IN IF currentResourceCount >= MAX_RESOURCES THEN g
            ELSE IF currentResourceCount < MIN_RESOURCES
                 THEN spawnUpdate(
                        spawnMany(g, seed, MIN_RESOURCES - currentResourceCount), g)
                 ELSE IF coin THEN spawnUpdate(spawnMany(g, seed, 1), g)
                      ELSE spawnUpdate(g, g)

(* ------------------------------------------------------------------ *)
(* Initial state: the module has been loaded and startGameCycle() ran   *)
(* ------------------------------------------------------------------ *)
Loaded ==
    [players |-> << >>, playerOrder |-> << >>,
     playerMovements |-> << >>, movementOrder |-> << >>,
     resources |-> << >>, safeZones |-> << >>,
     isDayTime |-> TRUE, timeRemaining |-> GAME_DURATION,
     gameStatus |-> "waiting", preparationTimer |-> FALSE,
     restartTimeout |-> FALSE, spawnTasks |-> 0,
     resourceSerial |-> 0, crashed |-> FALSE, emitted |-> {}]

Init ==
    LET g == startGameCycle(Loaded)
    IN /\ players = g.players
       /\ playerOrder = g.playerOrder
       /\ playerMovements = g.playerMovements
       /\ movementOrder = g.movementOrder
       /\ resources = g.resources
       /\ safeZones = g.safeZones
       /\ isDayTime = g.isDayTime
       /\ timeRemaining = g.timeRemaining
       /\ gameStatus = g.gameStatus
       /\ preparationTimer = g.preparationTimer
       /\ restartTimeout = g.restartTimeout
       /\ spawnTasks = g.spawnTasks
       /\ resourceSerial = g.resourceSerial
       /\ crashed = g.crashed
       /\ emitted = g.emitted
       /\ cmds = 0
       /\ leaderboard = << >>
       /\ submissions = {}

(* ------------------------------------------------------------------ *)
(* Timers                                                               *)
(* ------------------------------------------------------------------ *)
PreparationTick ==
    /\ ~crashed
    /\ preparationTimer
    /\ \E seed \in Seeds :
        LET g == preparationTick(State, seed)
        IN /\ g.spawnTasks <= MaxSpawnTasks
           /\ Becomes(g)
    /\ UNCHANGED <<cmds, leaderboard, submissions>>

MacroTick ==
    /\ ~crashed
    /\ Becomes(gameLoop(State))
    /\ UNCHANGED <<cmds, leaderboard, submissions>>

\* mutant: the restart of the cycle clears the leaderboard
RestartTimeout_clearsLeaderboard ==
    /\ ~crashed
    /\ restartTimeout
    /\ Becomes(startGameCycle([State EXCEPT !.restartTimeout = FALSE]))
    /\ leaderboard' = << >>
    /\ submissions' = submissions
    /\ UNCHANGED cmds

RestartTimeout ==
    /\ ~crashed
    /\ restartTimeout
    /\ Becomes(startGameCycle([State EXCEPT !.restartTimeout = FALSE]))
    /\ UNCHANGED <<cmds, leaderboard, submissions>>

(* ------------------------------------------------------------------ *)
(* Socket commands                                                      *)
(* ------------------------------------------------------------------ *)
newPlayer(position) ==
    [position |-> position, resources |-> FullResources, score |-> 0,
     isInSafeZone |-> FALSE, isSpectator |-> FALSE]

register(g, id, position) ==
    [g EXCEPT
        !.players = [k \in DOMAIN g.players \cup {id} |->
                        IF k = id THEN newPlayer(position) ELSE g.players[k]],
        !.playerOrder = IF id \in DOMAIN g.players THEN @ ELSE Append(@, id)]

Register(id) ==
    /\ ~crashed
    /\ cmds < MaxCmds
    /\ \E position \in RegPositions : Becomes(register(State, id, position))
    /\ cmds' = cmds + 1
    /\ UNCHANGED <<leaderboard, submissions>>

Without(seq, id) == SelectSeq(seq, LAMBDA e : e # id)

disconnect(g, id) ==
    [g EXCEPT
        !.players = [k \in DOMAIN g.players \ {id} |-> g.players[k]],
        !.playerOrder = Without(@, id),
        !.playerMovements = [k \in DOMAIN g.playerMovements \ {id} |-> g.playerMovements[k]],
        !.movementOrder = Without(@, id)]

Disconnect(id) ==
    /\ ~crashed
    /\ cmds < MaxCmds
    /\ id \in DOMAIN players
    /\ Becomes(disconnect(State, id))
    /\ cmds' = cmds + 1
    /\ UNCHANGED <<leaderboard, submissions>>

\* mutant: the intent is recorded whoever sends the command
movePlayer_unchecked(g, id, position) ==
    [g EXCEPT
        !.playerMovements = [k \in DOMAIN g.playerMovements \cup {id} |->
            IF k = id THEN [targetPosition |-> position, isMoving |-> TRUE]
            ELSE g.playerMovements[k]],
        !.movementOrder = IF id \in DOMAIN g.playerMovements THEN @
                          ELSE Append(@, id)]

movePlayer(g, id, position) ==
    IF id \in DOMAIN g.players /\ ~g.players[id].isSpectator
    THEN [g EXCEPT
            !.playerMovements = [k \in DOMAIN g.playerMovements \cup {id} |->
                IF k = id THEN [targetPosition |-> position, isMoving |-> TRUE]
                ELSE g.playerMovements[k]],
            !.movementOrder = IF id \in DOMAIN g.playerMovements THEN @
                              ELSE Append(@, id)]
    ELSE g

MovePlayer(id) ==
    /\ ~crashed
    /\ cmds < MaxCmds
    /\ \E position \in MoveTargets : Becomes(movePlayer(State, id, position))
    /\ cmds' = cmds + 1
    /\ UNCHANGED <<leaderboard, submissions>>

CollectResource(id) ==
    /\ ~crashed
    /\ cmds < MaxCmds
    /\ Becomes(collectResource(State, id))
    /\ cmds' = cmds + 1
    /\ UNCHANGED <<leaderboard, submissions>>

MovementTick ==
    /\ ~crashed
    /\ Becomes(updatePlayerPositions(State))
    /\ UNCHANGED <<cmds, leaderboard, submissions>>

SpawnTick ==
    /\ ~crashed
    /\ spawnTasks > 0
    /\ \E seed \in SpawnSeeds, coin \in BOOLEAN :
        LET g == spawnTick(State, seed, coin)
        IN /\ g.resourceSerial <= MaxSpawned
           /\ Becomes(g)
    /\ UNCHANGED <<cmds, leaderboard, submissions>>

Next ==
    \/ PreparationTick
    \/ MacroTick
    \/ MovementTick
    \/ SpawnTick
    \/ RestartTimeout
    \/ \E id \in Ids : Register(id)
    \/ \E id \in Ids : MovePlayer(id)
    \/ \E id \in Ids : CollectResource(id)
    \/ \E id \in Ids : Disconnect(id)

Spec == Init /\ [][Next]_vars

\* the macro tick of a running session
RunningMacroTick == gameStatus = "running" /\ MacroTick

\* setInterval(gameLoop, 1000) is never cleared (l.320), so the macro tick
\* keeps firing: weak fairness of RunningMacroTick.  The formula is
\* WF_vars(RunningMacroTick) with ENABLED <<RunningMacroTick>>_vars written
\* as the state predicate it is equal to: the tick of a running session is
\* always possible and always changes timeRemaining.
MacroTickFairness ==
    \/ []<>(gameStatus # "running")
    \/ []<><<RunningMacroTick>>_vars

FairSpec == Spec /\ MacroTickFairness

(* ------------------------------------------------------------------ *)
(* A session with two players                                           *)
(*                                                                      *)
(* c1 registered during the preparation phase, the session started and  *)
(* ran until PlayTime seconds before its end (c1 stood still and died   *)
(* on the way); then c1 registered again and c2 registered.  From there *)
(* the two players send up to MaxPlayCmds commands in all (the three    *)
(* registrations included) and the spawn task creates up to             *)
(* MaxPlaySpawned resources; the session runs to its end.               *)
(* ------------------------------------------------------------------ *)
MaxPlayCmds == 5
MaxPlaySpawned == 11
PlayTime == 2
PlaySeeds == {1, ClusterSeed}

Settled(g) == [g EXCEPT !.emitted = {}]

Is(g) ==
    /\ players = g.players
    /\ playerOrder = g.playerOrder
    /\ playerMovements = g.playerMovements
    /\ movementOrder = g.movementOrder
    /\ resources = g.resources
    /\ safeZones = g.safeZones
    /\ isDayTime = g.isDayTime
    /\ timeRemaining = g.timeRemaining
    /\ gameStatus = g.gameStatus
    /\ preparationTimer = g.preparationTimer
    /\ restartTimeout = g.restartTimeout
    /\ spawnTasks = g.spawnTasks
    /\ resourceSerial = g.resourceSerial
    /\ crashed = g.crashed
    /\ emitted = g.emitted

RECURSIVE preparationTicks(_, _, _)
preparationTicks(g, seed, n) ==
    IF n = 0 THEN g
    ELSE preparationTicks(preparationTick(Settled(g), seed), seed, n - 1)

\* n macro ticks in a row (split in halves to keep the evaluation shallow)
RECURSIVE macroTicks(_, _)
macroTicks(g, n) ==
    IF n = 0 THEN g
    ELSE IF n = 1 THEN gameLoop(Settled(g))
    ELSE LET h == macroTicks(g, n \div 2)
         IN IF h.crashed THEN h ELSE macroTicks(h, n - (n \div 2))

\* startGameCycle() at load, register of c1, the countdown, the macro ticks
\* down to time t, then the second register command of c1
LateSession(seed, t) ==
    LET g0 == register(Settled(startGameCycle(Loaded)), "c1", Px(5, 300))
        g1 == preparationTicks(g0, seed, PREPARATION_TIME)
        g2 == macroTicks(g1, GAME_DURATION - t)
    IN register(Settled(g2), "c1", Px(5, 300))

PlayInit ==
    /\ \E seed \in PlaySeeds :
            Is(register(LateSession(seed, PlayTime), "c2", Px(20, 300)))
    /\ cmds = 3
    /\ leaderboard = << >>
    /\ submissions = {}

PlayMove(id) ==
    /\ ~crashed
    /\ cmds < MaxPlayCmds
    /\ \E position \in MoveTargets : Becomes(movePlayer(State, id, position))
    /\ cmds' = cmds + 1
    /\ UNCHANGED <<leaderboard, submissions>>

PlayCollect(id) ==
    /\ ~crashed
    /\ cmds < MaxPlayCmds
    /\ Becomes(collectResource(State, id))
    /\ cmds' = cmds + 1
    /\ UNCHANGED <<leaderboard, submissions>>

PlaySpawnTick ==
    /\ ~crashed
    /\ spawnTasks > 0
    /\ \E seed \in SpawnSeeds, coin \in BOOLEAN :
        LET g == spawnTick(State, seed, coin)
        IN /\ g.resourceSerial <= MaxPlaySpawned
           /\ Becomes(g)
    /\ UNCHANGED <<cmds, leaderboard, submissions>>

PlayNext ==
    \/ MacroTick
    \/ MovementTick
    \/ PlaySpawnTick
    \/ \E id \in Ids : PlayMove(id)
    \/ \E id \in Ids : PlayCollect(id)

SpecPlay == PlayInit /\ [][PlayNext]_vars

(* ------------------------------------------------------------------ *)
(* A player at nightfall                                                *)
(*                                                                      *)
(* c1 registered during the preparation phase, the session started and  *)
(* ran until DuskTime seconds before its end, in daytime shortly before *)
(* the last night; then c1 registered again.  From there the clients    *)
(* send up to MaxNightCmds commands in all (the two registrations       *)
(* included); the session runs to its end.                              *)
(* ------------------------------------------------------------------ *)
MaxNightCmds == 4
DuskTime == 32

NightInit ==
    /\ \E seed \in Seeds : Is(LateSession(seed, DuskTime))
    /\ cmds = 2
    /\ leaderboard = << >>
    /\ submissions = {}

NightMove(id) ==
    /\ ~crashed
    /\ cmds < MaxNightCmds
    /\ \E position \in MoveTargets : Becomes(movePlayer(State, id, position))
    /\ cmds' = cmds + 1
    /\ UNCHANGED <<leaderboard, submissions>>

NightCollect(id) ==
    /\ ~crashed
    /\ cmds < MaxNightCmds
    /\ Becomes(collectResource(State, id))
    /\ cmds' = cmds + 1
    /\ UNCHANGED <<leaderboard, submissions>>

NightNext ==
    \/ MacroTick
    \/ MovementTick
    \/ SpawnTick
    \/ \E id \in Ids : NightMove(id)
    \/ \E id \in Ids : NightCollect(id)

SpecNight == NightInit /\ [][NightNext]_vars

(* ------------------------------------------------------------------ *)
(* The leaderboard                                                      *)
(* ------------------------------------------------------------------ *)
MAX_LEADERBOARD_ENTRIES == 10

\* gameOver events received per run, after the ones of the initial state
MaxSubmits == 2
\* largest score a client reports
MaxScore == 2

Names == {"n01", "n02", "n03", "n04", "n05", "n06",
          "n07", "n08", "n09", "n10", "n11", "n12"}
Scores == 0..MaxScore

\* mutant: the entry stays at the end, the list is not sorted
insertDesc_atEnd(sorted, e) == Append(sorted, e)

\* the place of e in a list sorted in descending order of score, behind
\* the entries that do not come after it (Array.prototype.sort is stable)
insertDesc(sorted, e) ==
    LET n == Cardinality({k \in 1..Len(sorted) : sorted[k].score >= e.score})
    IN SubSeq(sorted, 1, n) \o <<e>> \o SubSeq(sorted, n + 1, Len(sorted))

\* leaderboard.sort((a, b) => b.score - a.score)
RECURSIVE sortDesc(_)
sortDesc(seq) ==
    IF seq = << >> THEN << >>
    ELSE insertDesc(sortDesc(SubSeq(seq, 1, Len(seq) - 1)), seq[Len(seq)])

\* mutant: the name is never found, every submission adds an entry
findEntry_none(board, playerName) == 0

\* index of leaderboard.find(entry => entry.playerName === playerName), 0
\* for undefined
findEntry(board, playerName) ==
    IF \E k \in 1..Len(board) : board[k].playerName = playerName
    THEN CHOOSE k \in 1..Len(board) :
            /\ board[k].playerName = playerName
            /\ \A j \in 1..(k - 1) : board[j].playerName # playerName
    ELSE 0

\* mutant: an existing entry takes any other score, lower ones as well
updateLeaderboard_anyScore(board, playerName, score) ==
    LET k == findEntry(board, playerName)
    IN IF k # 0
       THEN IF score # board[k].score
            THEN sortDesc([board EXCEPT ![k].score = score])
            ELSE board
       ELSE LET pushed == sortDesc(Append(board,
                            [playerName |-> playerName, score |-> score]))
            IN IF Len(pushed) > MAX_LEADERBOARD_ENTRIES
               THEN SubSeq(pushed, 1, Len(pushed) - 1)
               ELSE pushed

\* mutant: the list over its bound loses its first entry, the highest one
updateLeaderboard_shift(board, playerName, score) ==
    LET k == findEntry(board, playerName)
    IN IF k # 0
       THEN IF score > board[k].score
            THEN sortDesc([board EXCEPT ![k].score = score])
            ELSE board
       ELSE LET pushed == sortDesc(Append(board,
                            [playerName |-> playerName, score |-> score]))
            IN IF Len(pushed) > MAX_LEADERBOARD_ENTRIES
               THEN SubSeq(pushed, 2, Len(pushed))
               ELSE pushed

updateLeaderboard(board, playerName, score) ==
    LET k == findEntry(board, playerName)
    IN IF k # 0
       THEN IF score > board[k].score
            THEN sortDesc([board EXCEPT ![k].score = score])
            ELSE board
       ELSE LET pushed == sortDesc(Append(board,
                            [playerName |-> playerName, score |-> score]))
            IN IF Len(pushed) > MAX_LEADERBOARD_ENTRIES
               THEN SubSeq(pushed, 1, Len(pushed) - 1)
               ELSE pushed

gameVars == <<players, playerOrder, playerMovements, movementOrder, resources,
              safeZones, isDayTime, timeRemaining, gameStatus,
              preparationTimer, restartTimeout, spawnTasks, resourceSerial,
              crashed>>

\* the gameOver command; the leaderboardUpdate event carries, for
\* observation, the submission that caused it
GameOver(playerName, score) ==
    /\ ~crashed
    /\ cmds < MaxSubmits
    /\ leaderboard' = updateLeaderboard(leaderboard, playerName, score)
    /\ submissions' = submissions \cup
            {[playerName |-> playerName, score |-> score]}
    /\ emitted' = {[type |-> "leaderboardUpdate",
                    leaderboard |-> leaderboard',
                    playerName |-> playerName, score |-> score]}
    /\ cmds' = cmds + 1
    /\ UNCHANGED gameVars

\* gameOver events of ten clients, received before the run begins
EarlierSubmissions ==
    <<[playerName |-> "n01", score |-> 1], [playerName |-> "n02", score |-> 2],
      [playerName |-> "n03", score |-> 0], [playerName |-> "n04", score |-> 1],
      [playerName |-> "n05", score |-> 2], [playerName |-> "n06", score |-> 1],
      [playerName |-> "n07", score |-> 1], [playerName |-> "n08", score |-> 2],
      [playerName |-> "n09", score |-> 1], [playerName |-> "n10", score |-> 2]>>

RECURSIVE submitAll(_, _, _)
submitAll(board, subs, n) ==
    IF n = 0 THEN board
    ELSE updateLeaderboard(submitAll(board, subs, n - 1),
                           subs[n].playerName, subs[n].score)

\* the server after load and after the first n of the earlier submissions
LeaderboardInit ==
    /\ Is(startGameCycle(Loaded))
    /\ cmds = 0
    /\ \E n \in 0..Len(EarlierSubmissions) :
            /\ leaderboard = submitAll(<< >>, EarlierSubmissions, n)
            /\ submissions = {EarlierSubmissions[k] : k \in 1..n}

LeaderboardNext ==
    \E playerName \in Names, score \in Scores : GameOver(playerName, score)

SpecLeaderboard == LeaderboardInit /\ [][LeaderboardNext]_vars

(* ------------------------------------------------------------------ *)
(* The end of a session and the cycle after it                          *)
(*                                                                      *)
(* The server PlayTime seconds before the end of its second session,    *)
(* with c1 a spectator or registered again; from there the clients send *)
(* up to MaxCmds commands and the server runs as in Spec: the session   *)
(* finishes and the cycle restarts with a preparation phase.            *)
(* ------------------------------------------------------------------ *)
\* the server of LateSession run to the end of its session, through the
\* restart and the countdown into a second session, down to time t of that
\* session (c1 stood still and died on the way)
SecondSession(seed, t) ==
    LET g0 == macroTicks(LateSession(seed, 1), 1)
        g1 == startGameCycle([Settled(g0) EXCEPT !.restartTimeout = FALSE])
        g2 == preparationTicks(g1, seed, PREPARATION_TIME)
    IN Settled(macroTicks(g2, GAME_DURATION - t))

LateInit ==
    /\ \E seed \in Seeds, again \in BOOLEAN :
            LET g == SecondSession(seed, PlayTime)
            IN Is(IF again THEN register(g, "c1", Px(5, 300)) ELSE g)
    /\ cmds = 0
    /\ leaderboard = << >>
    /\ submissions = {}

SpecLate == LateInit /\ [][Next]_vars

(* ------------------------------------------------------------------ *)
(* A player walking to targets of any kind                              *)
(*                                                                      *)
(* c1 registered at (5,300) during the first preparation phase; the     *)
(* clients send up to MaxWalkCmds commands in all (the registration     *)
(* included), the others being movePlayer commands whose targets are    *)
(* a whole number of steps away, or not, or lie outside the map.  The   *)
(* movement interval is never cleared, so the movement tick keeps       *)
(* firing.                                                              *)
(* ------------------------------------------------------------------ *)
MaxWalkCmds == 2
\* a target three steps (15 px) away, a target 7 px away and a target
\* outside the map
WalkTargets == {Px(20, 300), Px(12, 300), Px(-5, 300)}

WalkInit ==
    /\ Is(register(Settled(startGameCycle(Loaded)), "c1", Px(5, 300)))
    /\ cmds = 1
    /\ leaderboard = << >>
    /\ submissions = {}

WalkMove(id) ==
    /\ ~crashed
    /\ cmds < MaxWalkCmds
    /\ \E position \in WalkTargets : Becomes(movePlayer(State, id, position))
    /\ cmds' = cmds + 1
    /\ UNCHANGED <<leaderboard, submissions>>

WalkNext ==
    \/ PreparationTick
    \/ MacroTick
    \/ MovementTick
    \/ \E id \in Ids : WalkMove(id)

\* setInterval(updatePlayerPositions, 1000 / 60) is never cleared (l.279)
SpecWalk == WalkInit /\ [][WalkNext]_vars /\ WF_vars(MovementTick)

(* ------------------------------------------------------------------ *)
(* The game together with the HTTP and leaderboard requests             *)
(* ------------------------------------------------------------------ *)
\* mutant: the request starts a session
postStartGame_starts(g) ==
    Emit(startGame(g, 1), [type |-> "httpResponse", status |-> 400])

\* app.post('/start-game', ...): the response is the only effect
postStartGame(g) == Emit(g, [type |-> "httpResponse", status |-> 400])

PostStartGame ==
    /\ ~crashed
    /\ cmds < MaxCmds
    /\ Becomes(postStartGame(State))
    /\ cmds' = cmds + 1
    /\ UNCHANGED <<leaderboard, submissions>>

\* the names and scores the clients of a game submit
SubmitNames == {"n01", "n11"}
SubmitScores == {1, MaxScore}

\* the socket commands, the gameOver submissions and the start requests
\* share the budget of MaxCmds client requests
RequestsNext ==
    \/ Next
    \/ PostStartGame
    \/ \E playerName \in SubmitNames, score \in SubmitScores :
            cmds < MaxCmds /\ GameOver(playerName, score)

SpecRequests == Init /\ [][RequestsNext]_vars

(* ------------------------------------------------------------------ *)
(* Observations used by the properties                                  *)
(* ------------------------------------------------------------------ *)
Connected == DOMAIN players
Staying == DOMAIN players \cap DOMAIN players'

AllZero(player) == \A ty \in Types : player.resources[ty] = 0

\* the last handler ran the death transition for id
DiedNow(evs, id) ==
    \E ev \in evs : ev.type = "playerDied" /\ ev.playerId = id

\* the ids of the resources present
ResourceIds(res) == {res[k].id : k \in 1..Len(res)}

\* the successful collections of the last handler
Collections(evs) == {ev \in evs : ev.type = "resourceCollected"}

\* the step starts a preparation phase (startGameCycle ran)
PreparationBegins == [type |-> "preparationPhase"] \in emitted'

\* the step is the preparation timer's tick that brings the countdown to zero
CountdownReachesZero ==
    [type |-> "preparationUpdate", timeRemaining |-> 0] \in emitted'

(* ------------------------------------------------------------------ *)
(* C1                                                                   *)
(* ------------------------------------------------------------------ *)
\* C1: the status changes only along waiting -> running, running -> finished
\* and finished -> waiting (or stays as it is); never waiting -> finished,
\* running -> waiting or finished -> running.
C1_StatusTransitions ==
    [][ \/ gameStatus' = gameStatus
        \/ gameStatus = "waiting" /\ gameStatus' = "running"
        \/ gameStatus = "running" /\ gameStatus' = "finished"
        \/ gameStatus = "finished" /\ gameStatus' = "waiting" ]_vars

\* a whole cycle has been walked: a session was started and the status is
\* waiting again
C1_Witness == gameStatus = "waiting" /\ spawnTasks >= 1

(* ------------------------------------------------------------------ *)
(* C2                                                                   *)
(* ------------------------------------------------------------------ *)
\* C2: after every Finished phase the session re-enters Waiting, for any set
\* of connected players including the empty one.  As a property of single
\* states: in every finished state the server is alive and the delayed
\* startGameCycle is pending (nothing else leads from finished to waiting).
C2_FinishedReturnsToWaiting ==
    gameStatus = "finished" => (restartTimeout /\ ~crashed)

(* ------------------------------------------------------------------ *)
(* C3                                                                   *)
(* ------------------------------------------------------------------ *)
\* C3: when the preparation countdown reaches zero with no non-spectator
\* player, the session stays waiting with the countdown back at the full
\* preparation time; running is entered only with at least one non-spectator
\* player registered at that moment.
C3_NoStartWithoutActivePlayer ==
    [][ /\ (CountdownReachesZero /\ activePlayers(State) = {})
            => (gameStatus' = "waiting" /\ timeRemaining' = PREPARATION_TIME)
        /\ (gameStatus = "waiting" /\ gameStatus' = "running")
            => activePlayers(State) # {} ]_vars

\* the countdown reached zero and the preparation phase was restarted
C3_Witness ==
    /\ [type |-> "preparationUpdate", timeRemaining |-> 0] \in emitted
    /\ gameStatus = "waiting"
    /\ timeRemaining = PREPARATION_TIME

(* ------------------------------------------------------------------ *)
(* C4                                                                   *)
(* ------------------------------------------------------------------ *)
\* C4: every level of every player is within [0, 100] in every reachable state.
C4_LevelsInRange ==
    \A id \in Connected : \A ty \in Types :
        /\ players[id].resources[ty] >= 0
        /\ players[id].resources[ty] <= MAX_RESOURCE_VALUE

\* a player who has collected, still alive, with a level depleted down to 0
\* and another one above it
C4_Witness ==
    \E id \in Connected :
        /\ ~players[id].isSpectator
        /\ players[id].score > 0
        /\ \E ty \in Types : players[id].resources[ty] = 0
        /\ \E ty \in Types : players[id].resources[ty] > 0

(* ------------------------------------------------------------------ *)
(* C5                                                                   *)
(* ------------------------------------------------------------------ *)
\* C5: timeRemaining is never negative.
C5_TimeRemainingNonNegative == timeRemaining >= 0

\* the running countdown has reached its boundary
C5_Witness == gameStatus = "finished" /\ timeRemaining = 0

(* ------------------------------------------------------------------ *)
(* C6                                                                   *)
(* ------------------------------------------------------------------ *)
\* C6: a player becomes a spectator exactly when all three levels are 0:
\* isSpectator goes from false to true only in a step whose death transition
\* was called with the three levels at 0 (the levels are read at the call:
\* the tick that ends the session resets them afterwards), and no state
\* holds a non-spectator whose three levels are all 0 (the transition is not
\* deferred).
C6_SpectatorIffAllZero ==
    /\ [](\A id \in Connected : AllZero(players[id]) => players[id].isSpectator)
    /\ [][ \A id \in Staying :
            (~players[id].isSpectator /\ players'[id].isSpectator)
                => \E ev \in emitted' :
                        /\ ev.type = "playerDied"
                        /\ ev.playerId = id
                        /\ \A ty \in Types : ev.resources[ty] = 0 ]_vars

\* a death transition has just made a player a spectator
C6_Witness ==
    \E ev \in emitted :
        /\ ev.type = "playerDied"
        /\ ~ev.wasSpectator
        /\ ev.playerId \in Connected
        /\ players[ev.playerId].isSpectator

(* ------------------------------------------------------------------ *)
(* C7                                                                   *)
(* ------------------------------------------------------------------ *)
\* C7: the death transition runs once per player per session: a player who is
\* a spectator with all levels at 0 in a running session (the death
\* transition has run for them in this session) gets no further death
\* transition from a later tick of that session.
C7_DeathOncePerSession ==
    [][ \A id \in Staying :
            (gameStatus = "running" /\ players[id].isSpectator
                /\ AllZero(players[id]))
                => ~DiedNow(emitted', id) ]_vars

(* ------------------------------------------------------------------ *)
(* C8                                                                   *)
(* ------------------------------------------------------------------ *)
\* C8: isSpectator is sticky: once true for a connected player it stays true
\* until the next preparation phase begins, whatever that player's
\* connection sends.
C8_SpectatorSticky ==
    [][ \A id \in Staying :
            (players[id].isSpectator /\ ~PreparationBegins)
                => players'[id].isSpectator ]_vars

(* ------------------------------------------------------------------ *)
(* C9                                                                   *)
(* ------------------------------------------------------------------ *)
\* C9: when a preparation phase begins, every connected player has
\* isSpectator false again.
C9_SpectatorResetAtPreparation ==
    [][ PreparationBegins
            => \A id \in DOMAIN players' : ~players'[id].isSpectator ]_vars

(* ------------------------------------------------------------------ *)
(* C10                                                                  *)
(* ------------------------------------------------------------------ *)
\* C10: while a player is a spectator, no movement tick, macro tick or
\* collectResource command changes their position, score or levels (steps
\* that change the status, i.e. the session transitions, are left aside).
C10_SpectatorFrozen ==
    [][ \A id \in Staying :
            (players[id].isSpectator /\ players'[id].isSpectator
                /\ gameStatus' = gameStatus)
                => /\ players'[id].position = players[id].position
                   /\ players'[id].score = players[id].score
                   /\ players'[id].resources = players[id].resources ]_vars

(* ------------------------------------------------------------------ *)
(* C11                                                                  *)
(* ------------------------------------------------------------------ *)
\* C11: a resource is collected at most once.  The resources present have
\* pairwise distinct ids; every successful collection (a resourceCollected
\* event) is of a resource that was present and is gone afterwards; no two
\* collections of one step are of the same resource; the count drops by
\* exactly one per collection; and an id that enters the list is either
\* freshly spawned or comes with a session start, so a collected id does not
\* come back during its session.
C11_CollectedAtMostOnce ==
    /\ [](\A j, k \in 1..Len(resources) :
            j # k => resources[j].id # resources[k].id)
    /\ [][ LET got == Collections(emitted')
           IN /\ \A ev \in got :
                    /\ ev.resourceId \in ResourceIds(resources)
                    /\ ev.resourceId \notin ResourceIds(resources')
              /\ \A ev1, ev2 \in got :
                    ev1.resourceId = ev2.resourceId => ev1.playerId = ev2.playerId
              /\ got # {} => Len(resources') = Len(resources) - Cardinality(got)
              /\ \A rid \in ResourceIds(resources') \ ResourceIds(resources) :
                    \/ rid >= RESOURCE_COUNT + resourceSerial
                    \/ gameStatus = "waiting" /\ gameStatus' = "running" ]_vars

\* both players collected in one movement tick
C11_Witness ==
    \E ev1, ev2 \in Collections(emitted) :
        /\ ev1.playerId = "c1"
        /\ ev2.playerId = "c2"
        /\ ev1.resourceId # ev2.resourceId

(* ------------------------------------------------------------------ *)
(* C12                                                                  *)
(* ------------------------------------------------------------------ *)
\* the resource of the list with the given id
ResourceWithId(res, rid) == res[CHOOSE k \in 1..Len(res) : res[k].id = rid]

\* C12: a collection (by the movement tick or by the collectResource
\* command) of a resource of amount A and type T sets the player's level of
\* T to min(100, old level + A), which is a rise of at most min(A, 10), and
\* leaves the player's two other levels as they were.
C12_CollectionRaisesByAmount ==
    [][ \A ev \in Collections(emitted') :
            LET id == ev.playerId
                r == ResourceWithId(resources, ev.resourceId)
                old == players[id].resources[r.type]
                new == players'[id].resources[r.type]
            IN /\ new = Min(MAX_RESOURCE_VALUE, old + r.amount)
               /\ new - old <= Min(r.amount, MAX_RESOURCE_FILL)
               /\ new >= old
               /\ ev.newResourceValue = new
               /\ \A ty \in Types \ {r.type} :
                    players'[id].resources[ty] = players[id].resources[ty] ]_vars

\* a food resource of amount 7 has just been collected at food 95: food is 100
C12_Witness ==
    \E ev \in Collections(emitted) :
        /\ ev.resourceId = 0
        /\ ev.newResourceValue = 100
        /\ players[ev.playerId].resources =
                [food |-> 100, water |-> 95, oxygen |-> 95]

(* ------------------------------------------------------------------ *)
(* C13                                                                  *)
(* ------------------------------------------------------------------ *)
\* C13: while the status is running, the number of resources present is at
\* most MAX_RESOURCES.
C13_ResourceCountAtMostMax ==
    gameStatus = "running" => Len(resources) <= MAX_RESOURCES

\* the spawn task has filled the list up to the maximum
C13_Witness ==
    /\ gameStatus = "running"
    /\ Len(resources) = MAX_RESOURCES
    /\ resourceSerial >= MAX_RESOURCES - RESOURCE_COUNT

(* ------------------------------------------------------------------ *)
(* C14                                                                  *)
(* ------------------------------------------------------------------ *)
\* the step is the firing of a spawn interval that got past its two tests
\* (status running, count below the maximum)
SpawnTickActs == \E ev \in emitted' : ev.type = "gameStateUpdate"

\* C14: a spawn tick while running with fewer than MIN_RESOURCES resources
\* appends exactly MIN_RESOURCES - count resources; with MIN_RESOURCES <=
\* count < MAX_RESOURCES it appends none or one; so after every spawn tick
\* while running the count is at least MIN_RESOURCES.  No other step of a
\* running session adds a resource.
C14_SpawnTopsUp ==
    [][ LET count == Len(resources)
            added == Len(resources') - count
        IN /\ SpawnTickActs =>
                /\ gameStatus = "running"
                /\ SubSeq(resources', 1, count) = resources
                /\ count < MIN_RESOURCES => added = MIN_RESOURCES - count
                /\ count >= MIN_RESOURCES => added \in {0, 1}
                /\ Len(resources') >= MIN_RESOURCES
           /\ (gameStatus = "running" /\ ~SpawnTickActs) => added <= 0 ]_vars

\* a spawn tick has just pushed more than one resource to reach the minimum
C14_Witness ==
    /\ \E ev \in emitted : ev.type = "gameStateUpdate" /\ ev.spawned >= 2
    /\ gameStatus = "running"
    /\ Len(resources) = MIN_RESOURCES

(* ------------------------------------------------------------------ *)
(* C15                                                                  *)
(* ------------------------------------------------------------------ *)
\* C15: every resource present, generated at the session start or spawned,
\* has an amount in 1..10 and a type among food, water and oxygen, and a
\* resource that stays in the list keeps its amount (and type).
C15_ResourceAmounts ==
    /\ [](\A k \in 1..Len(resources) :
            /\ resources[k].amount \in 1..MAX_RESOURCE_FILL
            /\ resources[k].type \in Types)
    /\ [][ resources' # resources =>
            \A j \in 1..Len(resources), k \in 1..Len(resources') :
                resources[j].id = resources'[k].id
                    => /\ resources'[k].amount = resources[j].amount
                       /\ resources'[k].type = resources[j].type ]_vars

\* generated and spawned resources are present, after a collection, with
\* amounts at both ends of the range
C15_Witness ==
    /\ \E k \in 1..Len(resources) : resources[k].id >= RESOURCE_COUNT
    /\ \E k \in 1..Len(resources) :
            resources[k].id < RESOURCE_COUNT /\ resources[k].amount = 1
    /\ \E k \in 1..Len(resources) :
            resources[k].id < RESOURCE_COUNT /\ resources[k].amount = MAX_RESOURCE_FILL
    /\ \A k \in 1..Len(resources) : resources[k].id # 0

(* ------------------------------------------------------------------ *)
(* C16                                                                  *)
(* ------------------------------------------------------------------ *)
\* the step is a macro tick of a running session that does not end it (the
\* tick that ends the session resets the levels after depleting them)
MacroTickStep ==
    /\ gameStatus = "running"
    /\ gameStatus' = "running"
    /\ timeRemaining' = timeRemaining - 1

\* the rate of the rule: daytime is read after the tick's toggle, as the
\* depletion comes after it
RuleRate(player) ==
    IF isDayTime' THEN DEPLETION_RATE
    ELSE IF player.isInSafeZone THEN 0
    ELSE NIGHT_DEPLETION_RATE

\* C16: in a macro tick of a running session each level of a non-spectator
\* player goes down, floored at 0, by 5 in daytime, by nothing at night when
\* the player's isInSafeZone is true, and by 15 at night when it is false;
\* the three levels get the same rate.
C16_DepletionRates ==
    [][ MacroTickStep =>
            \A id \in Staying :
                ~players[id].isSpectator =>
                    \A ty \in Types :
                        players'[id].resources[ty] =
                            Max(0, players[id].resources[ty] - RuleRate(players[id])) ]_vars

\* a night tick has just gone by for a sheltered non-spectator player who
\* had been depleted in daytime
C16_Witness ==
    /\ gameStatus = "running"
    /\ ~isDayTime
    /\ timeRemaining % DAY_NIGHT_CYCLE # 0
    /\ \E id \in Connected :
            /\ ~players[id].isSpectator
            /\ players[id].isInSafeZone
            /\ players[id].resources["food"] < MAX_RESOURCE_VALUE

(* ------------------------------------------------------------------ *)
(* C17                                                                  *)
(* ------------------------------------------------------------------ *)
\* the player's position is outside every safe zone
OutsideAllZones(player) == ~checkPlayerInSafeZone(State, player)

\* C17: at night, each macro tick lowers each level of a non-spectator
\* player whose position is outside all safe zones by exactly the penalty
\* rate (floored at 0), and the steps that are not macro ticks lower no
\* level of any player.
C17_NightPenaltyOutside ==
    [][ /\ (MacroTickStep /\ ~isDayTime') =>
                \A id \in Staying :
                    (~players[id].isSpectator /\ OutsideAllZones(players[id]))
                        => \A ty \in Types :
                                players'[id].resources[ty] =
                                    Max(0, players[id].resources[ty]
                                            - NIGHT_DEPLETION_RATE)
        /\ timeRemaining' = timeRemaining =>
                \A id \in Staying : \A ty \in Types :
                    players'[id].resources[ty] >= players[id].resources[ty] ]_vars

(* ------------------------------------------------------------------ *)
(* C18                                                                  *)
(* ------------------------------------------------------------------ *)
\* the step length of the rule, in model units
RuleSpeed(player) ==
    IF \A ty \in Types : player.resources[ty] > 0
    THEN BASE_SPEED * UNIT
    ELSE (BASE_SPEED * UNIT) \div 2

\* id takes a step in this movement tick: the position changes although no
\* command arrived, and the target was not within the snapping threshold
TakesStep(id) ==
    /\ cmds' = cmds
    /\ id \in DOMAIN playerMovements
    /\ players'[id].position # players[id].position
    /\ Dist2(players[id].position, playerMovements[id].targetPosition)
            >= (SNAP_DISTANCE * UNIT) * (SNAP_DISTANCE * UNIT)

\* C18: a step of a movement tick has the length of the base speed when the
\* player's three levels are all above 0 and of exactly half the base speed
\* when one of them is 0; only non-spectator players with an active intent
\* take steps.
C18_StepLength ==
    [][ \A id \in Staying :
            TakesStep(id) =>
                /\ ~players[id].isSpectator
                /\ playerMovements[id].isMoving
                /\ Dist2(players[id].position, players'[id].position)
                        = RuleSpeed(players[id]) * RuleSpeed(players[id]) ]_vars

\* a player with a level at 0 and another above 0 is on the way and has
\* taken a step of half the base speed
C18_Witness ==
    \E id \in Connected :
        /\ ~players[id].isSpectator
        /\ id \in DOMAIN playerMovements
        /\ playerMovements[id].isMoving
        /\ \E ty \in Types : players[id].resources[ty] = 0
        /\ players[id].position.x % (BASE_SPEED * UNIT) = (BASE_SPEED * UNIT) \div 2

(* ------------------------------------------------------------------ *)
(* C19                                                                  *)
(* ------------------------------------------------------------------ *)
\* C19: after any sequence of submissions the leaderboard has at most 10
\* entries and is sorted in descending order of score.
C19_LeaderboardBoundedSorted ==
    /\ Len(leaderboard) <= MAX_LEADERBOARD_ENTRIES
    /\ \A j, k \in 1..Len(leaderboard) :
            j < k => leaderboard[j].score >= leaderboard[k].score

\* the leaderboard is full and a submission has displaced an entry of the
\* earlier submissions
C19_Witness ==
    /\ Len(leaderboard) = MAX_LEADERBOARD_ENTRIES
    /\ \E ev \in emitted :
            /\ ev.type = "leaderboardUpdate"
            /\ findEntry(leaderboard, ev.playerName) # 0
            /\ findEntry(EarlierSubmissions, ev.playerName) = 0
    /\ \E n \in 1..Len(EarlierSubmissions) :
            findEntry(leaderboard, EarlierSubmissions[n].playerName) = 0

(* ------------------------------------------------------------------ *)
(* C20                                                                  *)
(* ------------------------------------------------------------------ *)
\* C20: a submission with a score lower than or equal to the one recorded
\* for its name leaves the leaderboard as it is; the score of an entry that
\* stays on the leaderboard never goes down, and it goes up only to the
\* strictly greater score submitted for its name.
C20_LowerScoreChangesNothing ==
    [][ \A ev \in emitted' :
            ev.type = "leaderboardUpdate" =>
                LET k == findEntry(leaderboard, ev.playerName)
                IN /\ (k # 0 /\ ev.score <= leaderboard[k].score)
                        => leaderboard' = leaderboard
                   /\ \A i \in 1..Len(leaderboard), j \in 1..Len(leaderboard') :
                        leaderboard[i].playerName = leaderboard'[j].playerName
                            => \/ leaderboard'[j].score = leaderboard[i].score
                               \/ /\ leaderboard'[j].score > leaderboard[i].score
                                  /\ leaderboard[i].playerName = ev.playerName
                                  /\ leaderboard'[j].score = ev.score ]_vars

\* a lower score has just been submitted for a name on the leaderboard
C20_Witness ==
    \E ev \in emitted :
        /\ ev.type = "leaderboardUpdate"
        /\ findEntry(leaderboard, ev.playerName) # 0
        /\ ev.score < leaderboard[findEntry(leaderboard, ev.playerName)].score

(* ------------------------------------------------------------------ *)
(* C21                                                                  *)
(* ------------------------------------------------------------------ *)
\* C21: no two entries of the leaderboard have the same playerName, and a
\* submission for a name that is on the leaderboard adds no entry: the
\* names on the leaderboard and its length stay as they were.
C21_KeyedByName ==
    /\ [](\A j, k \in 1..Len(leaderboard) :
            leaderboard[j].playerName = leaderboard[k].playerName => j = k)
    /\ [][ \A ev \in emitted' :
            (ev.type = "leaderboardUpdate"
             /\ findEntry(leaderboard, ev.playerName) # 0)
                => /\ Len(leaderboard') = Len(leaderboard)
                   /\ {leaderboard'[k].playerName : k \in 1..Len(leaderboard')}
                        = {leaderboard[k].playerName : k \in 1..Len(leaderboard)}
                   /\ leaderboard'[findEntry(leaderboard', ev.playerName)].score
                        = Max(leaderboard[findEntry(leaderboard, ev.playerName)].score,
                              ev.score) ]_vars

\* a higher score has just been submitted for a name on the leaderboard,
\* which still holds one entry of that name
C21_Witness ==
    \E ev \in emitted :
        /\ ev.type = "leaderboardUpdate"
        /\ findEntry(EarlierSubmissions, ev.playerName) # 0
        /\ ev.score > EarlierSubmissions[findEntry(EarlierSubmissions, ev.playerName)].score
        /\ Cardinality({k \in 1..Len(leaderboard) :
                            leaderboard[k].playerName = ev.playerName}) = 1
        /\ cmds = 1

(* ------------------------------------------------------------------ *)
(* C22                                                                  *)
(* ------------------------------------------------------------------ *)
\* C22: a step that is not the handling of a gameOver submission leaves
\* the leaderboard unchanged: the session transitions, the movement, macro
\* and spawn ticks and the register, movePlayer, collectResource and
\* disconnect commands never change it.
C22_OnlyGameOverChangesLeaderboard ==
    [][ (\A ev \in emitted' : ev.type # "leaderboardUpdate")
            => leaderboard' = leaderboard ]_vars

\* a session has just finished, with its winner and its reset of the
\* players, and the entry submitted before is on the leaderboard
C22_Witness ==
    /\ Len(leaderboard) = 1
    /\ gameStatus = "finished"
    /\ \E ev \in emitted : ev.type = "gameFinished"
    /\ spawnTasks = 1

(* ------------------------------------------------------------------ *)
(* C23                                                                  *)
(* ------------------------------------------------------------------ *)
\* C23: the winner announced when the session finishes is a connected
\* player whose score before the reset is the maximum over all connected
\* players; the scores announced are the scores before the reset.
C23_WinnerHasMaxScore ==
    [][ \A ev \in emitted' :
            ev.type = "gameFinished" =>
                /\ gameStatus = "running" /\ gameStatus' = "finished"
                /\ ev.winner \in DOMAIN players
                /\ ev.winner \in DOMAIN players'
                /\ \A id \in DOMAIN players :
                        players[ev.winner].score >= players[id].score
                /\ ev.finalScores = [id \in DOMAIN players |-> players[id].score] ]_vars

\* a session has just finished with two players of different positive
\* scores, the first registered being the winner
C23_Witness ==
    \E ev \in emitted :
        /\ ev.type = "gameFinished"
        /\ ev.winner = "c1"
        /\ playerOrder = <<"c1", "c2">>
        /\ ev.finalScores["c1"] > ev.finalScores["c2"]
        /\ ev.finalScores["c2"] > 0
        /\ players["c1"].score = 0

(* ------------------------------------------------------------------ *)
(* C24                                                                  *)
(* ------------------------------------------------------------------ *)
\* C24: in every state of a Waiting phase, the first one after Finished
\* included, every connected player, spectator or not, has score 0 and
\* food, water and oxygen at 100.
C24_WaitingPlayersReset ==
    gameStatus = "waiting" =>
        \A id \in DOMAIN players :
            /\ players[id].score = 0
            /\ players[id].resources = FullResources

\* a Waiting phase has just begun after a session in which a player died:
\* the spectator is connected, and so is a player who registered and sent
\* a command after that
C24_Witness ==
    /\ gameStatus = "waiting"
    /\ spawnTasks >= 1
    /\ [type |-> "preparationPhase"] \in emitted
    /\ \E id \in DOMAIN players : players[id].isSpectator
    /\ \E id \in DOMAIN players : ~players[id].isSpectator
    /\ cmds = MaxCmds

(* ------------------------------------------------------------------ *)
(* C25                                                                  *)
(* ------------------------------------------------------------------ *)
\* C25: a POST /start-game request is answered with an error (status 400)
\* and changes nothing: GameState, the movement table, the timers and the
\* spawn tasks are as before.
C25_StartRequestRejected ==
    [][ \A ev \in emitted' :
            ev.type = "httpResponse" =>
                /\ ev.status = 400
                /\ UNCHANGED gameVars
                /\ UNCHANGED leaderboard ]_vars

\* the request has been answered during the preparation phase, with an
\* active player registered
C25_Witness ==
    /\ \E ev \in emitted : ev.type = "httpResponse"
    /\ gameStatus = "waiting"
    /\ activePlayers(State) # {}
    /\ spawnTasks = 0

(* ------------------------------------------------------------------ *)
(* C26                                                                  *)
(* ------------------------------------------------------------------ *)
\* C26: a movePlayer or collectResource command of a connection without a
\* registered player changes nothing and emits nothing: in every state the
\* two handlers, run for such a connection, return the state they were
\* given with no event, and a command received while no player is
\* registered, other than register, leaves every variable but the count of
\* commands as it was.
C26_UnregisteredCommandsNoOp ==
    /\ [](\A id \in Ids \ DOMAIN players :
            /\ collectResource(State, id) = State
            /\ \A position \in MoveTargets :
                    movePlayer(State, id, position) = State)
    /\ [][ (cmds' # cmds /\ DOMAIN players = {} /\ DOMAIN players' = {})
            => /\ UNCHANGED gameVars
               /\ UNCHANGED <<leaderboard, submissions>>
               /\ emitted' = {} ]_vars

\* one command has been received and no player is registered: the command
\* came from a connection without a player
C26_Witness ==
    /\ cmds = 1
    /\ DOMAIN players = {}
    /\ DOMAIN playerMovements = {}
    /\ emitted = {}
    /\ gameStatus = "waiting"

(* ------------------------------------------------------------------ *)
(* C27                                                                  *)
(* ------------------------------------------------------------------ *)
\* C27: the score of a connected player is a natural number, and no step
\* lowers it but the reset at Finished and the reset at the start of the
\* preparation; in particular no step within a Running phase lowers it.
C27_ScoreNeverDecreases ==
    /\ [](\A id \in DOMAIN players : players[id].score \in Nat)
    /\ [][ \A id \in DOMAIN players \cap DOMAIN players' :
            players'[id].score < players[id].score
                => \/ gameStatus = "running" /\ gameStatus' = "finished"
                   \/ PreparationBegins ]_vars

C29_DayNightFlip ==
    [][ gameStatus = "running" =>
            ((isDayTime' # isDayTime)
                <=> /\ timeRemaining' = timeRemaining - 1
                    /\ timeRemaining' % DAY_NIGHT_CYCLE = 0) ]_vars

\* night has just fallen, 30 macro ticks into the session
C29_Witness ==
    /\ gameStatus = "running"
    /\ ~isDayTime
    /\ timeRemaining = GAME_DURATION - DAY_NIGHT_CYCLE
    /\ [type |-> "dayNightChange", isDayTime |-> FALSE] \in emitted

(* ------------------------------------------------------------------ *)
(* C30                                                                  *)
(* ------------------------------------------------------------------ *)
\* C30: while the session is Running timeRemaining is positive and changes
\* only by the decrement of 1 of a macro tick; the session leaves Running
\* only for Finished, in the macro tick that takes timeRemaining from 1 to
\* 0, and that tick always finishes it; with the macro tick firing again
\* and again, every Running phase becomes Finished.
C30_CountdownToFinished ==
    /\ [](gameStatus = "running" => timeRemaining \in 1..GAME_DURATION)
    /\ [][ gameStatus = "running" =>
            /\ timeRemaining' # timeRemaining
                    => /\ timeRemaining' = timeRemaining - 1
                       /\ (timeRemaining' = 0 <=> gameStatus' = "finished")
            /\ gameStatus' # "running"
                    => /\ gameStatus' = "finished"
                       /\ timeRemaining = 1 /\ timeRemaining' = 0 ]_vars
    /\ (gameStatus = "running" ~> gameStatus = "finished")

\* the macro tick that brought timeRemaining to 0 has just finished the
\* session
C30_Witness ==
    /\ gameStatus = "finished"
    /\ timeRemaining = 0
    /\ \E ev \in emitted : ev.type = "gameFinished"
    /\ restartTimeout

(* ------------------------------------------------------------------ *)
(* C31                                                                  *)
(* ------------------------------------------------------------------ *)
\* GameState: what the clients are sent of the state
GameStateOf(g) ==
    <<g.players, g.resources, g.safeZones, g.gameStatus, g.timeRemaining,
      g.isDayTime>>

\* the three periodic callbacks, each from a settled state; nothing runs
\* after the uncaught exception
MovementThen(g) == IF g.crashed THEN g ELSE updatePlayerPositions(Settled(g))
MacroThen(g) == IF g.crashed THEN g ELSE gameLoop(Settled(g))
SpawnThen(g, seed, coin) ==
    IF g.crashed THEN g ELSE spawnTick(Settled(g), seed, coin)

\* C31: from every reachable Running state, any two of the movement tick,
\* the macro tick and the spawn tick give the same GameState in either
\* order (the spawn tick with the same random choices in both orders).
C31_TicksCommute ==
    (gameStatus = "running" /\ ~crashed) =>
        /\ GameStateOf(MacroThen(MovementThen(State)))
                = GameStateOf(MovementThen(MacroThen(State)))
        /\ spawnTasks > 0 =>
            \A seed \in SpawnSeeds, coin \in BOOLEAN :
                /\ GameStateOf(SpawnThen(MacroThen(State), seed, coin))
                        = GameStateOf(MacroThen(SpawnThen(State, seed, coin)))
                /\ GameStateOf(SpawnThen(MovementThen(State), seed, coin))
                        = GameStateOf(MovementThen(SpawnThen(State, seed, coin)))

(* ------------------------------------------------------------------ *)
(* C34                                                                  *)
(* ------------------------------------------------------------------ *)
\* C34: after a movement tick, run from any reachable state, every
\* connected non-spectator player has isInSafeZone true if and only if the
\* position of the player is within the radius of a safe zone.
C34_SafeZoneFlagDerived ==
    ~crashed =>
        LET g == MovementThen(State)
        IN \A id \in DOMAIN g.players :
                ~g.players[id].isSpectator
                    => (g.players[id].isInSafeZone
                            <=> checkPlayerInSafeZone(g, g.players[id]))

(* ------------------------------------------------------------------ *)
(* C35                                                                  *)
(* ------------------------------------------------------------------ *)
\* C35: a firing of the spawn interval while the status is Waiting or
\* Finished pushes no resource, emits nothing and leaves the state as it
\* is, whatever the random draws; no step taken outside Running makes the
\* resource list longer.
C35_SpawnOnlyWhileRunning ==
    /\ [](gameStatus # "running" =>
            \A seed \in SpawnSeeds, coin \in BOOLEAN :
                spawnTick(State, seed, coin) = State)
    /\ [][ gameStatus' # "running" => Len(resources') <= Len(resources) ]_vars

\* a session has been played, so that a spawn interval is installed; the
\* status is Waiting with fewer than MIN_RESOURCES resources, where a
\* running session would be topped up, and the handler that ran last
\* emitted nothing
C35_Witness ==
    /\ gameStatus = "waiting"
    /\ spawnTasks > 0
    /\ Len(resources) < MIN_RESOURCES
    /\ emitted = {}

(* ------------------------------------------------------------------ *)
(* C36                                                                  *)
(* ------------------------------------------------------------------ *)
\* C36: when several connected players have the maximum score at the end of
\* the session, the winner announced is the one of them that comes first in
\* the order of registration.
C36_FirstRegisteredWinsTie ==
    [][ \A ev \in emitted' :
            ev.type = "gameFinished" =>
                \A j, k \in 1..Len(playerOrder) :
                    (/\ playerOrder[k] = ev.winner
                     /\ players[playerOrder[j]].score = players[ev.winner].score)
                        => k <= j ]_vars

(* ------------------------------------------------------------------ *)
(* C37                                                                  *)
(* ------------------------------------------------------------------ *)
\* the sum of the scores of the players in ids
RECURSIVE ScoreSum(_, _)
ScoreSum(ps, ids) ==
    IF ids = {} THEN 0
    ELSE LET id == CHOOSE i \in ids : TRUE
         IN ps[id].score + ScoreSum(ps, ids \ {id})

\* the sum of the amounts of the resources of res whose id is in rids
RECURSIVE AmountSum(_, _)
AmountSum(res, rids) ==
    IF rids = {} THEN 0
    ELSE LET rid == CHOOSE r \in rids : TRUE
         IN ResourceWithId(res, rid).amount + AmountSum(res, rids \ {rid})

\* C37: a step that raises the score of a player removes resources from the
\* list, and the scores gained in the step add up to the amounts of the
\* resources it removed: no resource still present has been credited.
C37_ScoreOnlyWithRemoval ==
    [][ (\E id \in Staying : players'[id].score > players[id].score)
            => LET removed == ResourceIds(resources) \ ResourceIds(resources')
               IN /\ removed # {}
                  /\ ScoreSum(players', Staying) - ScoreSum(players, Staying)
                        = AmountSum(resources, removed) ]_vars

(* ------------------------------------------------------------------ *)
(* C38                                                                  *)
(* ------------------------------------------------------------------ *)
\* C38: at most one spawn interval is installed at any time, however many
\* sessions have been played.
C38_AtMostOneSpawnTask == spawnTasks <= 1

(* ------------------------------------------------------------------ *)
(* C39                                                                  *)
(* ------------------------------------------------------------------ *)
\* C39: whenever the status is Waiting the resource list is empty.
C39_NoResourcesWhileWaiting ==
    gameStatus = "waiting" => resources = << >>

\* the preparation after a session: the safe zone of the session is still
\* installed, its resources are gone, a spawn interval is installed and a
\* player is connected
C39_Witness ==
    /\ gameStatus = "waiting"
    /\ resources = << >>
    /\ safeZones # << >>
    /\ spawnTasks >= 1
    /\ DOMAIN players # {}
    /\ timeRemaining < PREPARATION_TIME

(* ------------------------------------------------------------------ *)
(* C32                                                                  *)
(* ------------------------------------------------------------------ *)
\* C32: with no further command, repeated movement ticks bring a connected
\* non-spectator player with an active intent to its target.  The movement
\* tick is a function of the server state, so the player gets there by
\* movement ticks only if no two of them bring the server back to the state
\* it was in while the intent is active.
C32_NoReturnWhileMoving ==
    \A id \in DOMAIN players \cap DOMAIN playerMovements :
        (/\ ~crashed
         /\ ~players[id].isSpectator
         /\ playerMovements[id].isMoving)
            => Settled(MovementThen(MovementThen(State))) # State

\* C32 as a property of behaviours: once the last command has been sent, a
\* connected non-spectator player with an active intent eventually stands on
\* the target with the intent cleared (or has died or disconnected on the
\* way), the movement tick firing again and again.
C32_IntentConsumed ==
    \A id \in Ids :
        (/\ cmds = MaxWalkCmds
         /\ id \in DOMAIN players
         /\ id \in DOMAIN playerMovements
         /\ ~players[id].isSpectator
         /\ playerMovements[id].isMoving)
        ~> (\/ id \notin DOMAIN players
            \/ id \notin DOMAIN playerMovements
            \/ players[id].isSpectator
            \/ /\ ~playerMovements[id].isMoving
               /\ players[id].position = playerMovements[id].targetPosition)


\* C33: every player's position is within the map, 0..MAP_WIDTH by
\* 0..MAP_HEIGHT, whatever targets the clients send.
C33_PositionInBounds ==
    \A id \in DOMAIN players :
        /\ players[id].position.x >= 0
        /\ players[id].position.x <= MAP_WIDTH * UNIT
        /\ players[id].position.y >= 0
        /\ players[id].position.y <= MAP_HEIGHT * UNIT


(* ------------------------------------------------------------------ *)
(* C40                                                                  *)
(* ------------------------------------------------------------------ *)
\* the names submitted so far, and the best score submitted for a name
SubmittedNames == {s.playerName : s \in submissions}
BestScore(name) ==
    LET scores == {s.score : s \in {t \in submissions : t.playerName = name}}
    IN CHOOSE v \in scores : \A w \in scores : w <= v
BoardNames == {leaderboard[k].playerName : k \in 1..Len(leaderboard)}

\* C40: the leaderboard is a top 10 of the per-name best scores over all
\* submissions so far: its names are distinct submitted names, each with
\* the best score submitted for it, in descending order; it holds
\* min(10, number of names) entries and no name left out has a better
\* best score than an entry. A submission for a name that is off the full
\* leaderboard puts the name on it when the score is over the lowest entry
\* and leaves the leaderboard as it is when the score is under it.
C40_TopTenOfBestScores ==
    /\ [](/\ BoardNames \subseteq SubmittedNames
          /\ Cardinality(BoardNames) = Len(leaderboard)
          /\ \A k \in 1..Len(leaderboard) :
                leaderboard[k].score = BestScore(leaderboard[k].playerName)
          /\ \A j, k \in 1..Len(leaderboard) :
                j < k => leaderboard[j].score >= leaderboard[k].score
          /\ Len(leaderboard) =
                IF Cardinality(SubmittedNames) < MAX_LEADERBOARD_ENTRIES
                THEN Cardinality(SubmittedNames)
                ELSE MAX_LEADERBOARD_ENTRIES
          /\ \A name \in SubmittedNames \ BoardNames :
                \A k \in 1..Len(leaderboard) :
                    BestScore(name) <= leaderboard[k].score)
    /\ [][\A ev \in emitted' :
            (/\ ev.type = "leaderboardUpdate"
             /\ Len(leaderboard) = MAX_LEADERBOARD_ENTRIES
             /\ findEntry(leaderboard, ev.playerName) = 0)
                => LET lowest == leaderboard[Len(leaderboard)].score
                       k == findEntry(leaderboard', ev.playerName)
                   IN /\ ev.score > lowest
                            => k # 0 /\ leaderboard'[k].score = ev.score
                      /\ ev.score < lowest => leaderboard' = leaderboard ]_vars

\* a name displaced from the full leaderboard is back on it with a higher
\* score, and the name that displaced it has been displaced in turn
C40_Witness ==
    /\ Len(leaderboard) = MAX_LEADERBOARD_ENTRIES
    /\ \E ev \in emitted :
        /\ ev.type = "leaderboardUpdate"
        /\ findEntry(leaderboard, ev.playerName) # 0
        /\ \E s \in submissions :
            /\ s.playerName = ev.playerName
            /\ s.score < ev.score
            /\ \E t \in submissions :
                /\ t.playerName \notin BoardNames
                /\ t.score > s.score
                /\ t.score < ev.score

====
